---- MODULE Spec2Model ----
(***************************************************************************)
(* A model of src/src/lsap.rs: the rectangular linear sum assignment       *)
(* solver (solve, augmenting_path, argsort_iter) and get_assigned_cost.    *)
(*                                                                         *)
(* Vectors are functions over 0..n-1, as the code indexes them.  An f64 is *)
(* a record [k, n]: k is "fin" (the value is the integer n), "pinf",       *)
(* "ninf" or "nan".  The finite values are the integers of magnitude at    *)
(* most MaxFinite; a sum beyond that overflows to an infinity, as a sum    *)
(* beyond f64::MAX does.  Rounding is not modelled.                        *)
(***************************************************************************)
EXTENDS Integers, Sequences, FiniteSets, TLC

\* ---------------------------------------------------------------- bounds
MaxDim == 3
MaxWeight == 4
MaxConst == 2
MaxBad == 1
MaxHugeDim == 2
MaxHuge == 4
MaxFinite == 99

\* ------------------------------------------------------------------- f64
F(n) == [k |-> "fin", n |-> n]
PInf == [k |-> "pinf", n |-> 0]
NInf == [k |-> "ninf", n |-> 0]
NaN == [k |-> "nan", n |-> 0]

is_nan(x) == x.k = "nan"
is_infinite(x) == x.k \in {"pinf", "ninf"}
is_finite(x) == x.k = "fin"

FNeg(x) ==
    CASE x.k = "fin" -> F(0 - x.n)
      [] x.k = "pinf" -> NInf
      [] x.k = "ninf" -> PInf
      [] OTHER -> NaN

\* The f64 nearest to the integer n.
Round(n) == IF n > MaxFinite THEN PInf ELSE IF n < 0 - MaxFinite THEN NInf ELSE F(n)

FAdd(x, y) ==
    CASE x.k = "nan" \/ y.k = "nan" -> NaN
      [] x.k = "fin" /\ y.k = "fin" -> Round(x.n + y.n)
      [] x.k = "fin" -> y
      [] y.k = "fin" -> x
      [] x.k = y.k -> x
      [] OTHER -> NaN

FSub(x, y) == FAdd(x, FNeg(y))

\* The position of a non-NaN value on the extended number line.
FRank(x) == CASE x.k = "ninf" -> 0 [] x.k = "fin" -> 1 [] OTHER -> 2

FLt(x, y) ==
    /\ x.k # "nan"
    /\ y.k # "nan"
    /\ \/ FRank(x) < FRank(y)
       \/ x.k = "fin" /\ y.k = "fin" /\ x.n < y.n

FEq(x, y) ==
    /\ x.k # "nan"
    /\ y.k # "nan"
    /\ x.k = y.k
    /\ x.k = "fin" => x.n = y.n

\* ----------------------------------------------------------------- inputs
Vec(n, x) == [k \in 0..(n - 1) |-> x]

\* The sequences of n naturals whose sum is at most w.
RECURSIVE Weighted(_, _)
Weighted(n, w) ==
    IF n = 0 THEN {<<>>}
    ELSE UNION {{Append(m, e) : m \in Weighted(n - 1, w - e)} : e \in 0..w}

FromSeq(s) == [k \in 0..(Len(s) - 1) |-> F(s[k + 1])]

\* All-finite matrices of small total weight.
FiniteCosts(r, c) == {FromSeq(m) : m \in Weighted(r * c, MaxWeight)}

\* Constant matrices, the extreme constants among them.
ConstCosts(r, c) ==
    {Vec(r * c, F(e)) : e \in ((0 - MaxConst)..MaxConst) \cup {MaxFinite, 0 - MaxFinite}}

\* A finite value of more than half the largest magnitude.
Huge == MaxFinite \div 2 + 1

\* Matrices with at most MaxHuge entries of huge magnitude, the others zero.
HugeCosts(r, c) ==
    UNION {{[k \in 0..(r * c - 1) |-> IF k \in S THEN b[k] ELSE F(0)] :
                b \in [S -> {F(Huge), F(0 - Huge)}]} :
           S \in {T \in SUBSET (0..(r * c - 1)) :
                     Cardinality(T) >= 1 /\ Cardinality(T) <= MaxHuge}}

\* Matrices with between 1 and MaxBad entries that are NaN or infinite.
BadCosts(r, c) ==
    UNION {{[k \in 0..(r * c - 1) |-> IF k \in S THEN b[k] ELSE F(0)] :
                b \in [S -> {NaN, PInf, NInf}]} :
           S \in {T \in SUBSET (0..(r * c - 1)) :
                     Cardinality(T) >= 1 /\ Cardinality(T) <= MaxBad}}

\* With a dimension of zero: an empty vector, or one arbitrary value.
TrivialCosts == {Vec(0, F(0))} \cup {Vec(1, x) : x \in {F(0), F(1), NaN, PInf, NInf}}

\* The scenario of the specification: [[4,1,3],[2,0,5],[3,2,2]].
ExampleCost == FromSeq(<<4, 1, 3, 2, 0, 5, 3, 2, 2>>)

\* ------------------------------------------------- solve: normalization
\* Faulty variant: both dimensions must be zero.
IsTrivialBoth(n_r, n_c) == n_r = 0 /\ n_c = 0

\* if nr == 0 || nc == 0
IsTrivial(n_r, n_c) == n_r = 0 \/ n_c = 0

\* let transpose = nc < nr;
NeedsTranspose(n_r, n_c) == n_c < n_r

\* temp[j * nr + i] = cost[i * nc + j]
Transposed(n_r, n_c, c) ==
    [k \in 0..(n_c * n_r - 1) |-> c[(k % n_r) * n_c + (k \div n_r)]]

\* Faulty variant: the copy is left as it is.
NegatedNot(n, t) == t

\* temp[i] = -temp[i] for i in 0..(nr * nc)
Negated(n, t) == [k \in DOMAIN t |-> IF k < n THEN FNeg(t[k]) ELSE t[k]]

\* The working matrix: the caller's, transposed when tall, negated to maximize.
SurrogatedCost(n_r, n_c, c, mx) ==
    LET temp == IF NeedsTranspose(n_r, n_c) THEN Transposed(n_r, n_c, c) ELSE c
    IN  IF mx THEN Negated(n_r * n_c, temp) ELSE temp

\* Faulty variant: only NaN is tested for.
HasInvalidNaNOnly(n, sc) == \E k \in 0..(n - 1) : is_nan(sc[k])

\* The test for NaN and infinite entries of the working matrix.
HasInvalid(n, sc) == \E k \in 0..(n - 1) : is_nan(sc[k]) \/ is_infinite(sc[k])

\* The solver's vectors as allocated before the first row; n_r <= n_c here.
InitVars(n_r, n_c, sc) ==
    [nr |-> n_r, nc |-> n_c, cost |-> sc, M1 |-> n_r * n_c,
     u |-> Vec(n_r, F(0)), v |-> Vec(n_c, F(0)),
     shortest_path_costs |-> Vec(n_c, PInf),
     path |-> Vec(n_c, n_r * n_c),
     col4row |-> Vec(n_r, n_r * n_c), row4col |-> Vec(n_c, n_r * n_c),
     SR |-> Vec(n_r, FALSE), SC |-> Vec(n_c, FALSE),
     remaining |-> Vec(n_c, n_r * n_c),
     cur_row |-> 0, i |-> 0, min_val |-> F(0), num_remaining |-> 0,
     sink |-> n_r * n_c, j |-> 0]

\* ------------------------------------------------------- augmenting_path
\* Faulty variant: filled in ascending order.
InitRemainingAscending(n_c) == [it \in 0..(n_c - 1) |-> it]

\* remaining[it] = nc - it - 1
InitRemaining(n_c) == [it \in 0..(n_c - 1) |-> n_c - it - 1]

\* The entry of augmenting_path, up to the search loop.
BeginSearch(s) ==
    [s EXCEPT !.min_val = F(0),
              !.num_remaining = s.nc,
              !.remaining = InitRemaining(s.nc),
              !.SR = Vec(s.nr, FALSE),
              !.SC = Vec(s.nc, FALSE),
              !.shortest_path_costs = Vec(s.nc, PInf),
              !.i = s.cur_row,
              !.sink = s.M1]

\* let r = min_val + cost[i * nc + j] - u[i] - v[j]
ReducedCost(mv, c, ui, vj) == FSub(FSub(FAdd(mv, c), ui), vj)

\* Faulty variant: no preference for an unmatched column on a tie.
SelectsStrict(spcj, lowest, unmatched) == FLt(spcj, lowest)

\* The selection test: strictly lower, or equal and column j unmatched.
Selects(spcj, lowest, unmatched) ==
    FLt(spcj, lowest) \/ (FEq(spcj, lowest) /\ unmatched)

\* for it in 0..num_remaining: relax column remaining[it], then select.
RECURSIVE Scan(_, _, _)
Scan(s, it, acc) ==
    IF it >= s.num_remaining THEN acc
    ELSE LET jj == s.remaining[it]
             r == ReducedCost(s.min_val, s.cost[s.i * s.nc + jj], s.u[s.i], s.v[jj])
             better == FLt(r, acc.spc[jj])
             path1 == IF better THEN [acc.path EXCEPT ![jj] = s.i] ELSE acc.path
             spc1 == IF better THEN [acc.spc EXCEPT ![jj] = r] ELSE acc.spc
             sel == Selects(spc1[jj], acc.lowest, s.row4col[jj] = s.M1)
         IN  Scan(s, it + 1,
                  [path |-> path1, spc |-> spc1,
                   lowest |-> IF sel THEN spc1[jj] ELSE acc.lowest,
                   index |-> IF sel THEN it ELSE acc.index])

\* One iteration of `while sink == MINUS_1`.  When the lowest cost is
\* infinite the function returns (MINUS_1, min_val) at once.
SearchStep(s) ==
    LET s1 == [s EXCEPT !.SR[s.i] = TRUE]
        sc == Scan(s1, 0, [path |-> s.path, spc |-> s.shortest_path_costs,
                           lowest |-> PInf, index |-> s.M1])
        s2 == [s1 EXCEPT !.path = sc.path,
                         !.shortest_path_costs = sc.spc,
                         !.min_val = sc.lowest]
    IN  IF is_infinite(sc.lowest) THEN s2
        ELSE LET jj == s.remaining[sc.index]
                 free == s.row4col[jj] = s.M1
             IN  [s2 EXCEPT !.sink = IF free THEN jj ELSE s.sink,
                            !.i = IF free THEN s.i ELSE s.row4col[jj],
                            !.SC[jj] = TRUE,
                            !.num_remaining = s.num_remaining - 1,
                            !.remaining[sc.index] = s.remaining[s.num_remaining - 1]]

\* --------------------------------------------------- solve: the row loop
\* u[cur_row] += min_val; u[i] += min_val - shortest_path_costs[col4row[i]]
DualU(s) ==
    [r \in 0..(s.nr - 1) |->
        IF r = s.cur_row THEN FAdd(s.u[r], s.min_val)
        ELSE IF s.SR[r]
             THEN FAdd(s.u[r], FSub(s.min_val, s.shortest_path_costs[s.col4row[r]]))
             ELSE s.u[r]]

\* v[j] -= min_val - shortest_path_costs[j]
DualV(s) ==
    [c \in 0..(s.nc - 1) |->
        IF s.SC[c] THEN FSub(s.v[c], FSub(s.min_val, s.shortest_path_costs[c]))
        ELSE s.v[c]]

\* The dual update, then `let mut j = sink`.
DualUpdate(s) == [s EXCEPT !.u = DualU(s), !.v = DualV(s), !.j = s.sink]

\* Faulty variant: row4col is not updated.
AugmentStepNoRow4col(s) ==
    LET r == s.path[s.j]
    IN  [s EXCEPT !.col4row[r] = s.j,
                  !.j = s.col4row[r]]

\* let i = path[j]; row4col[j] = i; swap(col4row[i], j)
AugmentStep(s) ==
    LET r == s.path[s.j]
    IN  [s EXCEPT !.row4col[s.j] = r,
                  !.col4row[r] = s.j,
                  !.j = s.col4row[r]]

\* if i == cur_row { break }
AugmentBreaks(s) == s.path[s.j] = s.cur_row

\* ------------------------------------------------------------ the output
\* The least index of S by (key, index): sort_by_key is stable.
ArgMin(key, S) ==
    CHOOSE x \in S : \A y \in S : key[x] < key[y] \/ (key[x] = key[y] /\ x <= y)

RECURSIVE SortIdx(_, _)
SortIdx(key, S) ==
    IF S = {} THEN <<>>
    ELSE LET x == ArgMin(key, S) IN <<x>> \o SortIdx(key, S \ {x})

\* Faulty variant: the indices are left unsorted.
argsort_unsorted(vec) == [k \in 1..Cardinality(DOMAIN vec) |-> k - 1]

argsort_iter(vec) == SortIdx(vec, DOMAIN vec)

\* Faulty variant: the transposed case pushes the pairs the other way round.
OutputPairsUnswapped(tr, n_r, c4r) ==
    [rows |-> [k \in 1..n_r |-> k - 1],
     cols |-> [k \in 1..n_r |-> c4r[k - 1]]]

\* The two result vectors a and b.
OutputPairs(tr, n_r, c4r) ==
    IF tr
    THEN LET idx == argsort_iter(c4r)
         IN  [rows |-> [k \in 1..Len(idx) |-> c4r[idx[k]]],
              cols |-> [k \in 1..Len(idx) |-> idx[k]]]
    ELSE [rows |-> [k \in 1..n_r |-> k - 1],
          cols |-> [k \in 1..n_r |-> c4r[k - 1]]]

Ok(p) == [tag |-> "Ok", rows |-> p.rows, cols |-> p.cols]
Err(e) == [tag |-> e, rows |-> <<>>, cols |-> <<>>]
NoResult == [tag |-> "none", rows |-> <<>>, cols |-> <<>>]

\* return Ok((vec![], vec![]))
TrivialResult == Ok([rows |-> <<>>, cols |-> <<>>])

\* ------------------------------------------------------ get_assigned_cost
RECURSIVE SumPairs(_, _, _, _, _)
SumPairs(n_c, c, rows, cols, k) ==
    IF k = 0 THEN F(0)
    ELSE FAdd(SumPairs(n_c, c, rows, cols, k - 1), c[rows[k] * n_c + cols[k]])

\* score += cost[rows[i] * nc + cols[i]], on the caller's matrix.
AssignedCost(n_c, c, res) ==
    IF res.tag = "Ok"
    THEN [tag |-> "Ok", val |-> SumPairs(n_c, c, res.rows, res.cols, Len(res.rows))]
    ELSE [tag |-> res.tag, val |-> F(0)]

NoScore == [tag |-> "none", val |-> F(0)]


\* --------------------------------------------- solve as one pure function
RECURSIVE SearchLoop(_)
SearchLoop(s) ==
    IF s.sink # s.M1 THEN s
    ELSE LET t == SearchStep(s)
         IN  IF is_infinite(t.min_val) THEN t ELSE SearchLoop(t)

RECURSIVE AugmentLoop(_)
AugmentLoop(s) ==
    IF AugmentBreaks(s) THEN AugmentStep(s) ELSE AugmentLoop(AugmentStep(s))

RECURSIVE RowLoop(_, _)
RowLoop(tr, s) ==
    IF s.cur_row >= s.nr THEN Ok(OutputPairs(tr, s.nr, s.col4row))
    ELSE LET t == SearchLoop(BeginSearch(s))
         IN  IF t.sink = t.M1 THEN Err("Infeasible")
             ELSE RowLoop(tr, [AugmentLoop(DualUpdate(t)) EXCEPT !.cur_row = s.cur_row + 1])

solve(n_r, n_c, c, mx) ==
    IF IsTrivial(n_r, n_c) THEN TrivialResult
    ELSE LET tr == NeedsTranspose(n_r, n_c)
             wr == IF tr THEN n_c ELSE n_r
             wc == IF tr THEN n_r ELSE n_c
             sc == SurrogatedCost(n_r, n_c, c, mx)
         IN  IF HasInvalid(wr * wc, sc) THEN Err("Invalid")
             ELSE RowLoop(tr, InitVars(wr, wc, sc))

get_assigned_cost(n_r, n_c, c, mx) == AssignedCost(n_c, c, solve(n_r, n_c, c, mx))

\* ----------------------------------------------------------------- state
VARIABLES
    in_nr, in_nc, cost, maximize,   \* the arguments of the call
    pc,                             \* the position in solve / get_assigned_cost
    nr, nc, transpose, surrogated_cost,
    u, v, shortest_path_costs, path, col4row, row4col, SR, SC, remaining,
    cur_row,                        \* the row of the driver loop
    i, min_val, num_remaining, sink,\* the locals of augmenting_path
    j,                              \* the column of the augmentation walk
    result,                         \* what solve returned
    score                           \* what get_assigned_cost returned

args == <<in_nr, in_nc, cost, maximize>>
shape == <<nr, nc, transpose, surrogated_cost>>
duals == <<u, v>>
assignment == <<col4row, row4col>>
scratch == <<shortest_path_costs, path, SR, SC, remaining>>
locals == <<i, min_val, num_remaining, sink>>
vars == <<args, pc, shape, duals, assignment, scratch, cur_row, locals, j, result, score>>

MINUS_1 == nr * nc

\* The solver's state as the record the operators above work on.
St ==
    [nr |-> nr, nc |-> nc, cost |-> surrogated_cost, M1 |-> MINUS_1,
     u |-> u, v |-> v, shortest_path_costs |-> shortest_path_costs, path |-> path,
     col4row |-> col4row, row4col |-> row4col, SR |-> SR, SC |-> SC,
     remaining |-> remaining, cur_row |-> cur_row, i |-> i, min_val |-> min_val,
     num_remaining |-> num_remaining, sink |-> sink, j |-> j]

Init ==
    /\ \/ \E r \in 1..MaxDim, c \in 1..MaxDim :
            /\ in_nr = r
            /\ in_nc = c
            /\ \/ cost \in FiniteCosts(r, c)
               \/ cost \in ConstCosts(r, c) /\ r = c
               \/ cost \in BadCosts(r, c)
       \/ \E r \in 1..MaxHugeDim, c \in 1..MaxHugeDim :
            /\ in_nr = r
            /\ in_nc = c
            /\ cost \in HugeCosts(r, c)
       \/ \E r \in 0..MaxDim, c \in 0..MaxDim :
            /\ r = 0 \/ c = 0
            /\ in_nr = r
            /\ in_nc = c
            /\ cost \in TrivialCosts
       \/ in_nr = 3 /\ in_nc = 3 /\ cost = ExampleCost
    /\ maximize \in BOOLEAN
    /\ pc = "start"
    /\ nr = in_nr
    /\ nc = in_nc
    /\ transpose = FALSE
    /\ surrogated_cost = cost
    /\ u = <<>> /\ v = <<>>
    /\ shortest_path_costs = <<>> /\ path = <<>>
    /\ col4row = <<>> /\ row4col = <<>>
    /\ SR = <<>> /\ SC = <<>> /\ remaining = <<>>
    /\ cur_row = 0
    /\ i = 0 /\ min_val = F(0) /\ num_remaining = 0 /\ sink = 0
    /\ j = 0
    /\ result = NoResult
    /\ score = NoScore

\* if nr == 0 || nc == 0 { return Ok((vec![], vec![])) }
Trivial ==
    /\ pc = "start"
    /\ IsTrivial(nr, nc)
    /\ result' = TrivialResult
    /\ pc' = "done"
    /\ UNCHANGED <<args, shape, duals, assignment, scratch, cur_row, locals, j, score>>

\* The transposed, negated copy of the matrix, and the swap of nr and nc.
Normalize ==
    /\ pc = "start"
    /\ ~IsTrivial(nr, nc)
    /\ transpose' = NeedsTranspose(nr, nc)
    /\ surrogated_cost' = SurrogatedCost(nr, nc, cost, maximize)
    /\ nr' = IF transpose' THEN nc ELSE nr
    /\ nc' = IF transpose' THEN nr ELSE nc
    /\ pc' = "check"
    /\ UNCHANGED <<args, duals, assignment, scratch, cur_row, locals, j, result, score>>

\* A NaN or infinite entry: return Err(LSAPError::Invalid).
RejectInvalid ==
    /\ pc = "check"
    /\ HasInvalid(nr * nc, surrogated_cost)
    /\ result' = Err("Invalid")
    /\ pc' = "done"
    /\ UNCHANGED <<args, shape, duals, assignment, scratch, cur_row, locals, j, score>>

\* All entries finite: allocate the vectors and enter the row loop.
Initialize ==
    /\ pc = "check"
    /\ ~HasInvalid(nr * nc, surrogated_cost)
    /\ \E s \in {InitVars(nr, nc, surrogated_cost)} :
           /\ u' = s.u /\ v' = s.v
           /\ shortest_path_costs' = s.shortest_path_costs
           /\ path' = s.path
           /\ col4row' = s.col4row /\ row4col' = s.row4col
           /\ SR' = s.SR /\ SC' = s.SC /\ remaining' = s.remaining
           /\ cur_row' = s.cur_row
           /\ sink' = s.sink
    /\ pc' = "row"
    /\ UNCHANGED <<args, shape, i, min_val, num_remaining, j, result, score>>

\* for cur_row in 0..nr: the call of augmenting_path, up to its loop.
EnterSearch ==
    /\ pc = "row"
    /\ cur_row < nr
    /\ \E s \in {BeginSearch(St)} :
           /\ min_val' = s.min_val
           /\ num_remaining' = s.num_remaining
           /\ remaining' = s.remaining
           /\ SR' = s.SR /\ SC' = s.SC
           /\ shortest_path_costs' = s.shortest_path_costs
           /\ i' = s.i
           /\ sink' = s.sink
    /\ pc' = "search"
    /\ UNCHANGED <<args, shape, duals, assignment, path, cur_row, j, result, score>>

\* One iteration of the search loop of augmenting_path, and what follows
\* when the function returns: Err(Infeasible), or the dual update.
Search ==
    /\ pc = "search"
    /\ sink = MINUS_1
    /\ \E s \in {SearchStep(St)} :
           /\ SR' = s.SR /\ SC' = s.SC
           /\ path' = s.path
           /\ shortest_path_costs' = s.shortest_path_costs
           /\ min_val' = s.min_val
           /\ i' = s.i
           /\ sink' = s.sink
           /\ num_remaining' = s.num_remaining
           /\ remaining' = s.remaining
           /\ IF is_infinite(s.min_val)
              THEN result' = Err("Infeasible") /\ pc' = "done"
              ELSE result' = result /\ pc' = IF s.sink = s.M1 THEN "search" ELSE "dual"
    /\ UNCHANGED <<args, shape, duals, assignment, cur_row, j, score>>

\* The update of the dual variables; the walk starts at the sink.
UpdateDuals ==
    /\ pc = "dual"
    /\ \E s \in {DualUpdate(St)} :
           u' = s.u /\ v' = s.v /\ j' = s.j
    /\ pc' = "augment"
    /\ UNCHANGED <<args, shape, assignment, scratch, cur_row, locals, result, score>>

\* One iteration of the augmentation loop; the break ends the row.
Augment ==
    /\ pc = "augment"
    /\ \E s \in {AugmentStep(St)} :
           row4col' = s.row4col /\ col4row' = s.col4row /\ j' = s.j
    /\ IF AugmentBreaks(St)
       THEN cur_row' = cur_row + 1 /\ pc' = "row"
       ELSE cur_row' = cur_row /\ pc' = "augment"
    /\ UNCHANGED <<args, shape, duals, scratch, locals, result, score>>

\* After the last row: build a and b and return Ok((a, b)).
Output ==
    /\ pc = "row"
    /\ cur_row >= nr
    /\ result' = Ok(OutputPairs(transpose, nr, col4row))
    /\ pc' = "done"
    /\ UNCHANGED <<args, shape, duals, assignment, scratch, cur_row, locals, j, score>>

\* get_assigned_cost: `?` on the result of solve, then the sum.
Score ==
    /\ pc = "done"
    /\ score' = AssignedCost(in_nc, cost, result)
    /\ pc' = "scored"
    /\ UNCHANGED <<args, shape, duals, assignment, scratch, cur_row, locals, j, result>>

Next ==
    \/ Trivial
    \/ Normalize
    \/ RejectInvalid
    \/ Initialize
    \/ EnterSearch
    \/ Search
    \/ UpdateDuals
    \/ Augment
    \/ Output
    \/ Score

Spec == Init /\ [][Next]_vars

\* The call runs to its return without interruption: there is no
\* cancellation, and a step that can be taken is eventually taken.  A step
\* is possible exactly until get_assigned_cost has returned, so this is weak
\* fairness of Next with its enabling condition written out.
FairSpec == Spec /\ ([]<>(pc = "scored") \/ []<><<Next>>_vars)

\* The run agrees with the composed function.
RunMatchesSolve ==
    /\ pc \in {"done", "scored"} => result = solve(in_nr, in_nc, cost, maximize)
    /\ pc = "scored" => score = get_assigned_cost(in_nr, in_nc, cost, maximize)

\* ================================================================ claims
Returned == pc \in {"done", "scored"}
AllFinite == \A k \in DOMAIN cost : is_finite(cost[k])
NonEmpty == in_nr >= 1 /\ in_nc >= 1
Min(a, b) == IF a <= b THEN a ELSE b
Abs(n) == IF n < 0 THEN 0 - n ELSE n

\* Integer costs so small that no sum the solver forms can overflow.
Moderate ==
    /\ AllFinite
    /\ \A k \in DOMAIN cost : 2 * (in_nr + in_nc) * Abs(cost[k].n) <= MaxFinite

\* The set of (row, column) pairs of a result.
PairSet(res) == {<<res.rows[k], res.cols[k]>> : k \in 1..Len(res.rows)}

\* Every one-to-one pairing that covers the smaller dimension, as a pair set.
Pairings(n_r, n_c) ==
    IF n_r <= n_c
    THEN {{<<r, f[r]>> : r \in 0..(n_r - 1)} :
            f \in {g \in [0..(n_r - 1) -> 0..(n_c - 1)] :
                      \A x, y \in 0..(n_r - 1) : x # y => g[x] # g[y]}}
    ELSE {{<<f[c], c>> : c \in 0..(n_c - 1)} :
            f \in {g \in [0..(n_c - 1) -> 0..(n_r - 1)] :
                      \A x, y \in 0..(n_c - 1) : x # y => g[x] # g[y]}}

\* The integer total of the caller's costs over a pair set.
RECURSIVE Total(_)
Total(P) ==
    IF P = {} THEN 0
    ELSE LET q == CHOOSE x \in P : TRUE
         IN  cost[q[1] * in_nc + q[2]].n + Total(P \ {q})

\* C1: on a finite rows x cols matrix (rows, cols >= 1) solve returns a
\* one-to-one pairing covering the smaller dimension whose total, on the
\* caller's costs, is <= that of every such pairing when minimizing and >=
\* when maximizing; get_assigned_cost returns exactly that total; the
\* matrix [[4,1,3],[2,0,5],[3,2,2]] minimized gives 5.
C1_Optimal ==
    (pc = "scored" /\ NonEmpty /\ AllFinite) =>
        /\ result.tag = "Ok"
        /\ PairSet(result) \in Pairings(in_nr, in_nc)
        /\ \A P \in Pairings(in_nr, in_nc) :
              IF maximize THEN Total(PairSet(result)) >= Total(P)
              ELSE Total(PairSet(result)) <= Total(P)
        /\ score = [tag |-> "Ok", val |-> F(Total(PairSet(result)))]
        /\ (cost = ExampleCost /\ in_nr = 3 /\ in_nc = 3 /\ ~maximize) => score.val = F(5)

\* C1, where no sum overflows: the same statement over moderate costs.
C1_OptimalModerate == Moderate => C1_Optimal

\* The scenario was solved with total 5, and another pairing costs more.
C1_Witness ==
    /\ pc = "scored"
    /\ cost = ExampleCost /\ in_nr = 3 /\ in_nc = 3 /\ ~maximize
    /\ score = [tag |-> "Ok", val |-> F(5)]
    /\ \E P \in Pairings(in_nr, in_nc) : Total(P) > 5

\* C2: when solve returns Ok, both sequences have length min(rows, cols),
\* the rows are in 0..rows-1 and the columns in 0..cols-1 of the caller's
\* dimensions, no index occurs twice, and the sentinel never appears.
C2_OutputShape ==
    (Returned /\ result.tag = "Ok") =>
        /\ Len(result.rows) = Min(in_nr, in_nc)
        /\ Len(result.cols) = Min(in_nr, in_nc)
        /\ \A k \in 1..Len(result.rows) :
              /\ result.rows[k] \in 0..(in_nr - 1)
              /\ result.cols[k] \in 0..(in_nc - 1)
              /\ result.rows[k] # in_nr * in_nc
              /\ result.cols[k] # in_nr * in_nc
        /\ \A k, l \in 1..Len(result.rows) :
              k # l => result.rows[k] # result.rows[l] /\ result.cols[k] # result.cols[l]

\* A tall matrix, transposed internally, returned a pairing.
C2_Witness ==
    /\ pc = "done" /\ result.tag = "Ok"
    /\ in_nr = 3 /\ in_nc = 2 /\ transpose
    /\ Len(result.rows) = 2

\* C3: with rows, cols >= 1 and an entry that is NaN or infinite, solve
\* returns Err(Invalid), whatever maximize and the shape, before any dual
\* variable or assignment exists; never a pairing, never Infeasible.
C3_Invalid ==
    (NonEmpty /\ ~AllFinite) =>
        /\ pc \in {"start", "check", "done", "scored"}
        /\ Returned => result = Err("Invalid")
        /\ pc = "scored" => score.tag = "Invalid"
        /\ u = <<>> /\ v = <<>> /\ col4row = <<>> /\ row4col = <<>>

\* A tall maximized matrix with an infinite entry was rejected.
C3_Witness ==
    /\ pc = "done" /\ result = Err("Invalid")
    /\ transpose /\ maximize
    /\ \E k \in DOMAIN cost : is_infinite(cost[k])

\* C4: on a finite matrix solve never returns Err(Infeasible): after
\* normalization nr <= nc, every search step still has an unmatched column
\* in the remaining set, the selected minimum is finite in every step, and
\* the returned sink is a column index.
C4_NeverInfeasible ==
    (NonEmpty /\ AllFinite) =>
        /\ result.tag # "Infeasible"
        /\ pc # "start" => nr <= nc
        /\ (pc = "search" /\ sink = MINUS_1) =>
              \E it \in 0..(num_remaining - 1) : row4col[remaining[it]] = MINUS_1
        /\ (pc = "search" /\ num_remaining < nc) => is_finite(min_val)
        /\ pc = "dual" => sink \in 0..(nc - 1) /\ is_finite(min_val)

\* C4, where no sum overflows: the same statement over moderate costs.
C4_NeverInfeasibleModerate == Moderate => C4_NeverInfeasible

\* The last row of a square matrix found its sink as the only column left.
C4_Witness ==
    /\ pc = "dual" /\ AllFinite
    /\ nr = nc /\ nr >= 3 /\ cur_row = nr - 1
    /\ num_remaining = 0
    /\ sink \in 0..(nc - 1)

\* C5: for rows > cols the pairs of solve(rows, cols, C, maximize) are the
\* mirror of the pairs of solve(cols, rows, transpose(C), maximize), and the
\* tall call lists them with strictly ascending row indices.
C5_TransposeMirror ==
    (Returned /\ in_nr > in_nc /\ in_nc >= 1) =>
        LET ct == [k \in 0..(in_nr * in_nc - 1) |->
                      cost[(k % in_nr) * in_nc + (k \div in_nr)]]
            wide == solve(in_nc, in_nr, ct, maximize)
        IN  /\ result.tag = wide.tag
            /\ PairSet(result) = {<<q[2], q[1]>> : q \in PairSet(wide)}
            /\ \A k \in 1..(Len(result.rows) - 1) : result.rows[k] < result.rows[k + 1]

\* A tall call returned pairs whose columns are not in ascending order.
C5_Witness ==
    /\ pc = "done" /\ result.tag = "Ok"
    /\ in_nr = 3 /\ in_nc = 2
    /\ result.cols[1] > result.cols[2]

\* C6: on an n x n matrix (n >= 1) whose entries all equal one finite
\* constant, solve returns rows [0..n-1] and columns [0..n-1], for both
\* values of maximize.
C6_ConstIdentity ==
    (Returned /\ in_nr = in_nc /\ in_nr >= 1
        /\ is_finite(cost[0]) /\ cost = Vec(in_nr * in_nc, cost[0])) =>
        /\ result.tag = "Ok"
        /\ result.rows = [k \in 1..in_nr |-> k - 1]
        /\ result.cols = [k \in 1..in_nr |-> k - 1]

\* A constant non-zero 3 x 3 matrix was solved for the maximum.
C6_Witness ==
    /\ pc = "done" /\ in_nr = 3 /\ in_nc = 3 /\ maximize
    /\ cost = Vec(9, F(2))
    /\ result.cols = <<0, 1, 2>>

\* C7: on a finite matrix C, solve with maximize=true returns the same two
\* sequences as solve on -C with maximize=false, and get_assigned_cost of
\* the former is the negation of get_assigned_cost of the latter.
C7_MaxMinDuality ==
    (pc = "scored" /\ maximize /\ AllFinite) =>
        LET negc == [k \in DOMAIN cost |-> FNeg(cost[k])]
            other == get_assigned_cost(in_nr, in_nc, negc, FALSE)
        IN  /\ result = solve(in_nr, in_nc, negc, FALSE)
            /\ score.tag = other.tag
            /\ FEq(score.val, FNeg(other.val))

\* A maximization returned a non-zero total.
C7_Witness ==
    /\ pc = "scored" /\ maximize /\ AllFinite
    /\ in_nr = 2 /\ in_nc = 3
    /\ score.tag = "Ok" /\ FLt(F(1), score.val)

\* C8: with rows = 0 or cols = 0 solve returns Ok with two empty sequences,
\* whatever the cost vector and maximize, without normalizing or scanning
\* the matrix; get_assigned_cost returns Ok(0.0).
C8_Trivial ==
    (in_nr = 0 \/ in_nc = 0) =>
        /\ pc \in {"start", "done", "scored"}
        /\ Returned => result = [tag |-> "Ok", rows |-> <<>>, cols |-> <<>>]
        /\ pc = "scored" => score = [tag |-> "Ok", val |-> F(0)]
        /\ surrogated_cost = cost /\ ~transpose

\* An empty problem whose cost vector holds a NaN was scored.
C8_Witness ==
    /\ pc = "scored" /\ in_nr = 0 /\ in_nc = 3 /\ maximize
    /\ cost = Vec(1, NaN)
    /\ score = [tag |-> "Ok", val |-> F(0)]

\* C9: at the end of every iteration of the driver loop col4row and row4col
\* are the same partial matching: col4row[i] = j iff row4col[j] = i, and an
\* entry is the sentinel exactly when that row or column is unmatched.
C9_Matching ==
    pc = "row" =>
        /\ \A r \in 0..(nr - 1), c \in 0..(nc - 1) : col4row[r] = c <=> row4col[c] = r
        /\ \A r \in 0..(nr - 1) :
              /\ col4row[r] \in 0..(nc - 1) \cup {MINUS_1}
              /\ col4row[r] = MINUS_1 <=> ~\E c \in 0..(nc - 1) : row4col[c] = r
        /\ \A c \in 0..(nc - 1) :
              /\ row4col[c] \in 0..(nr - 1) \cup {MINUS_1}
              /\ row4col[c] = MINUS_1 <=> ~\E r \in 0..(nr - 1) : col4row[r] = c

\* An iteration ended whose walk gave the sink to an earlier row.
C9_Witness ==
    /\ pc = "row" /\ cur_row >= 2
    /\ row4col[sink] # cur_row - 1
    /\ col4row[cur_row - 1] # MINUS_1

\* C10: over integer costs, at the end of every iteration of the driver
\* loop, cost[i,j] - u[i] - v[j] >= 0 for every matched row i and every
\* column j, with equality when j = col4row[i].
C10_DualFeasible ==
    (pc = "row" /\ AllFinite) =>
        \A r \in 0..(nr - 1) :
            col4row[r] # MINUS_1 =>
                \A c \in 0..(nc - 1) :
                    /\ is_finite(u[r]) /\ is_finite(v[c])
                    /\ surrogated_cost[r * nc + c].n - u[r].n - v[c].n >= 0
                    /\ c = col4row[r] => surrogated_cost[r * nc + c].n - u[r].n - v[c].n = 0

\* C10, where no sum overflows: the same statement over moderate costs.
C10_DualFeasibleModerate == Moderate => C10_DualFeasible

\* An iteration ended with non-zero row and column potentials.
C10_Witness ==
    /\ pc = "row" /\ cur_row >= 2
    /\ \E r \in 0..(nr - 1) : col4row[r] # MINUS_1 /\ u[r] # F(0)
    /\ \E c \in 0..(nc - 1) : v[c] # F(0)

\* ------------------------------------------------------------------- C11
\* The columns of the remaining set.
RemainingSet == {remaining[k] : k \in 0..(num_remaining - 1)}

\* C11: in every selection step of augmenting_path the chosen column has the
\* smallest shortest-path cost of the remaining set; when an unmatched
\* remaining column attains that minimum the chosen column is unmatched and
\* the search ends with it as the sink; a matched column is chosen only when
\* no unmatched remaining column attains the minimum.
C11_TieBreak ==
    [][(pc = "search" /\ pc' # "done") =>
         \E jj \in RemainingSet :
            /\ ~SC[jj]
            /\ SC' = [SC EXCEPT ![jj] = TRUE]
            /\ min_val' = shortest_path_costs'[jj]
            /\ \A c \in RemainingSet :
                   ~FLt(shortest_path_costs'[c], shortest_path_costs'[jj])
            /\ IF \E c \in RemainingSet :
                      /\ row4col[c] = MINUS_1
                      /\ FEq(shortest_path_costs'[c], shortest_path_costs'[jj])
               THEN row4col[jj] = MINUS_1 /\ sink' = jj /\ pc' = "dual"
               ELSE /\ row4col[jj] # MINUS_1
                    /\ sink' = MINUS_1
                    /\ i' = row4col[jj]
                    /\ pc' = "search"]_vars

\* A search has just ended at an unmatched column while a matched column
\* still in the remaining set has the same shortest-path cost.
C11_Witness ==
    /\ pc = "dual"
    /\ \E c \in RemainingSet :
           /\ row4col[c] # MINUS_1
           /\ FEq(shortest_path_costs[c], shortest_path_costs[sink])

\* ------------------------------------------------------------------- C12
\* The augmentation walk from column c along path[] and col4row[] comes to
\* cur_row within `fuel` steps and never reads a sentinel predecessor.
RECURSIVE WalkReaches(_, _)
WalkReaches(c, fuel) ==
    /\ fuel > 0
    /\ c # MINUS_1
    /\ path[c] # MINUS_1
    /\ path[c] = cur_row \/ WalkReaches(col4row[path[c]], fuel - 1)

\* Each search holds exactly the unvisited columns in its remaining set, so
\* a selection step removes one of them and a search takes at most nc steps.
C12_SearchBounded ==
    pc = "search" =>
        /\ num_remaining >= 1
        /\ Cardinality(RemainingSet) = num_remaining
        /\ RemainingSet = {c \in 0..(nc - 1) : ~SC[c]}

\* Each selection step removes exactly the chosen column.
C12_RemovesOne ==
    [][(pc = "search" /\ pc' # "done") =>
         /\ num_remaining' = num_remaining - 1
         /\ \E c \in RemainingSet : RemainingSet' = RemainingSet \ {c}]_vars

\* The walk that is about to run, or is running, ends at cur_row.
C12_WalkReachesRow ==
    /\ pc = "dual" => WalkReaches(sink, nc)
    /\ pc = "augment" => WalkReaches(j, nc)

\* Every call on a finite-cost matrix returns.
C12_Returns == (AllFinite /\ NonEmpty) ~> Returned

\* C12: every call of solve on a finite-cost matrix terminates: a search
\* removes one column of the remaining set per selection step and ends
\* after at most nc steps, an augmentation walk reaches cur_row without
\* cycling or following a sentinel predecessor, and the driver finishes all
\* nr rows and returns a result.
C12_FinishesAllRows ==
    /\ C12_SearchBounded
    /\ C12_WalkReachesRow
    /\ (Returned /\ AllFinite /\ NonEmpty) => (cur_row = nr /\ result.tag = "Ok")

\* C12, where no sum overflows: the same statement over moderate costs.
C12_FinishesAllRowsModerate == Moderate => C12_FinishesAllRows

\* A call on a finite-cost matrix returned after a search of several
\* selection steps and a walk of several steps.
C12_Witness ==
    /\ Returned /\ AllFinite /\ NonEmpty
    /\ cur_row = nr /\ nr >= 2
    /\ num_remaining <= nc - 2
    /\ row4col[sink] # nr - 1

====
